---- MODULE Spec2Model ----
(***************************************************************************)
(* Model of scripts/generate_icon.py: the rocket icon generator.           *)
(*                                                                         *)
(* The script is one sequential process.  Its state is the control         *)
(* position, the Python variables that decide the control flow, the        *)
(* temporary directories it creates, what it prints, and the iconutil      *)
(* invocations it makes.  The environment (is Pillow importable, which     *)
(* external tools are on the PATH) is fixed when the process starts; the   *)
(* exit status of a tool that does launch, and whether a Pillow call       *)
(* raises, are chosen at each call.                                        *)
(*                                                                         *)
(* Numbers.  int(n * 0.3) is modelled as floor(3n/10) (and likewise for    *)
(* the other factors); on every operand the script uses the double         *)
(* product truncates to exactly that integer.  The body polygon keeps two  *)
(* untruncated floats per vertex (rocket_height * 0.4 and * 0.8); such a   *)
(* coordinate is carried as [tenths |-> t], the exact value being t/10     *)
(* pixels (the double differs from it by less than 1e-12).                 *)
(***************************************************************************)
EXTENDS Integers, Sequences, FiniteSets, TLC

VARIABLES
    env,            \* what the host provides: [PIL, iconutil, magick, convert]
    PIL_AVAILABLE,  \* the module-level flag (lines 7-11, reassigned line 186)
    pc,             \* control position
    i,              \* index of `size` in `sizes` in the running for loop
    temp_dir,       \* create_rocket_icon's local temp_dir (0: not assigned)
    main_temp_dir,  \* the module-level temp_dir of the fallback (0: not assigned)
    fs,             \* fs[d]: the files of d/AppIcon.iconset, d a mkdtemp result
    exists,         \* the temporary directories that exist on disk
    out,            \* what has been printed, in order
    exc,            \* the exception in flight ("none" when there is none)
    pending_return, \* a `return False` waiting for the finally block
    ret,            \* how create_rocket_icon ended: "none", "True", "False", "raised"
    runs,           \* the iconutil invocations made, in order
    icns,           \* AppIcon.icns has been written
    nfail           \* non-zero exits of the ImageMagick tool so far

vars == <<env, PIL_AVAILABLE, pc, i, temp_dir, main_temp_dir, fs, exists, out,
          exc, pending_return, ret, runs, icns, nfail>>

-----------------------------------------------------------------------------
(* Constants of the script *)

sizes == <<16, 32, 64, 128, 256, 512, 1024>>

\* The side from which no @2x variant is made (`if size < 1024`).
MaxSize == 1024

\* The test written with <= : the largest size gets an @2x variant too.
Has2xBug(size) == size <= MaxSize

Has2x(size) == size < MaxSize

\* f"icon_{size}x{size}.png" and f"icon_{size}x{size}@2x.png"
Filename(size) == <<"icon_", size, "x", size, ".png">>

Filename2x(size) == <<"icon_", size, "x", size, "@2x.png">>

\* os.path.join(temp_dir, "AppIcon.iconset")
IconsetPath(d) == <<d, "AppIcon.iconset">>

Msg(text, arg) == [text |-> text, arg |-> arg]

SuccessMsg == Msg("Icon generated: AppIcon.icns", "")

IcnsErrorMsg(e) == Msg("Error creating icns file: ", e)

PilErrorMsg(e) == Msg("Error with PIL method: ", e)

FallbackMsg == Msg("PIL/Pillow not installed. Creating a basic icon instead...", "")

-----------------------------------------------------------------------------
(* Arithmetic *)

\* int(n * (num/den)) for n >= 0
IntScale(n, num, den) == (n * num) \div den

\* a + b * (num/10), an untruncated float, in tenths of a pixel
Tenths(a, b, num) == [tenths |-> 10 * a + b * num]

White == <<255, 255, 255, 255>>
Red == <<220, 38, 127, 255>>
SkyBlue == <<135, 206, 235, 255>>
DarkRed == <<178, 34, 34, 255>>
Orange == <<255, 140, 0, 255>>

Ellipse(xy, fill) == [op |-> "ellipse", xy |-> xy, fill |-> fill]

Polygon(xy, fill) == [op |-> "polygon", xy |-> xy, fill |-> fill]

-----------------------------------------------------------------------------
(* The standard render: lines 24-89 *)

Background(size) ==
    LET padding == IntScale(size, 5, 100)
    IN  Ellipse(<<padding, padding, size - padding, size - padding>>, White)

RocketWidth(size) == IntScale(size, 3, 10)

RocketHeight(size) == IntScale(size, 6, 10)

RocketX(size) == (size - RocketWidth(size)) \div 2

RocketY(size) == (size - RocketHeight(size)) \div 2

\* The body drawn down to the full rocket height instead of 80% of it.
BodyPointsBug(rocket_x, rocket_y, rocket_width, rocket_height) ==
    << <<rocket_x + rocket_width \div 2, rocket_y>>,
       <<rocket_x + rocket_width, Tenths(rocket_y, rocket_height, 4)>>,
       <<rocket_x + rocket_width, Tenths(rocket_y, rocket_height, 10)>>,
       <<rocket_x, Tenths(rocket_y, rocket_height, 10)>>,
       <<rocket_x, Tenths(rocket_y, rocket_height, 4)>> >>

BodyPoints(rocket_x, rocket_y, rocket_width, rocket_height) ==
    << <<rocket_x + rocket_width \div 2, rocket_y>>,
       <<rocket_x + rocket_width, Tenths(rocket_y, rocket_height, 4)>>,
       <<rocket_x + rocket_width, Tenths(rocket_y, rocket_height, 8)>>,
       <<rocket_x, Tenths(rocket_y, rocket_height, 8)>>,
       <<rocket_x, Tenths(rocket_y, rocket_height, 4)>> >>

Body(size) ==
    Polygon(BodyPoints(RocketX(size), RocketY(size),
                       RocketWidth(size), RocketHeight(size)), Red)

Window(size) ==
    LET rocket_width == RocketWidth(size)
        rocket_height == RocketHeight(size)
        window_size == IntScale(rocket_width, 4, 10)
        window_x == RocketX(size) + (rocket_width - window_size) \div 2
        window_y == RocketY(size) + IntScale(rocket_height, 25, 100)
    IN  Ellipse(<<window_x, window_y, window_x + window_size, window_y + window_size>>,
                SkyBlue)

LeftFin(size) ==
    LET rocket_x == RocketX(size)
        fin_width == IntScale(RocketWidth(size), 3, 10)
        fin_height == IntScale(RocketHeight(size), 25, 100)
        fin_y == RocketY(size) + IntScale(RocketHeight(size), 65, 100)
    IN  Polygon(<< <<rocket_x, fin_y>>,
                   <<rocket_x - fin_width, fin_y + fin_height>>,
                   <<rocket_x, fin_y + fin_height>> >>, DarkRed)

RightFin(size) ==
    LET rocket_x == RocketX(size)
        rocket_width == RocketWidth(size)
        fin_width == IntScale(rocket_width, 3, 10)
        fin_height == IntScale(RocketHeight(size), 25, 100)
        fin_y == RocketY(size) + IntScale(RocketHeight(size), 65, 100)
    IN  Polygon(<< <<rocket_x + rocket_width, fin_y>>,
                   <<rocket_x + rocket_width + fin_width, fin_y + fin_height>>,
                   <<rocket_x + rocket_width, fin_y + fin_height>> >>, DarkRed)

Flame(size) ==
    LET rocket_width == RocketWidth(size)
        rocket_height == RocketHeight(size)
        flame_width == IntScale(rocket_width, 8, 10)
        flame_height == IntScale(rocket_height, 2, 10)
        flame_x == RocketX(size) + (rocket_width - flame_width) \div 2
        flame_y == RocketY(size) + IntScale(rocket_height, 8, 10)
    IN  Polygon(<< <<flame_x + flame_width \div 2, flame_y + flame_height>>,
                   <<flame_x, flame_y>>,
                   <<flame_x + flame_width \div 4, flame_y - flame_height \div 4>>,
                   <<flame_x + flame_width \div 2, flame_y>>,
                   <<flame_x + (flame_width * 3) \div 4, flame_y - flame_height \div 4>>,
                   <<flame_x + flame_width, flame_y>> >>, Orange)

\* Image.new('RGBA', (size, size), (0, 0, 0, 0)) and the six draw calls on it
StandardImage(size) ==
    [mode |-> "RGBA", size |-> <<size, size>>,
     draws |-> <<Background(size), Body(size), Window(size),
                 LeftFin(size), RightFin(size), Flame(size)>>]

-----------------------------------------------------------------------------
(* The @2x render: lines 97-161, written out a second time in the script *)

Size2x(size) == size * 2

Background2x(size) ==
    LET size_2x == Size2x(size)
        padding_2x == IntScale(size_2x, 5, 100)
    IN  Ellipse(<<padding_2x, padding_2x, size_2x - padding_2x, size_2x - padding_2x>>,
                White)

RocketWidth2x(size) == IntScale(Size2x(size), 3, 10)

RocketHeight2x(size) == IntScale(Size2x(size), 6, 10)

RocketX2x(size) == (Size2x(size) - RocketWidth2x(size)) \div 2

RocketY2x(size) == (Size2x(size) - RocketHeight2x(size)) \div 2

BodyPoints2x(rocket_x_2x, rocket_y_2x, rocket_width_2x, rocket_height_2x) ==
    << <<rocket_x_2x + rocket_width_2x \div 2, rocket_y_2x>>,
       <<rocket_x_2x + rocket_width_2x, Tenths(rocket_y_2x, rocket_height_2x, 4)>>,
       <<rocket_x_2x + rocket_width_2x, Tenths(rocket_y_2x, rocket_height_2x, 8)>>,
       <<rocket_x_2x, Tenths(rocket_y_2x, rocket_height_2x, 8)>>,
       <<rocket_x_2x, Tenths(rocket_y_2x, rocket_height_2x, 4)>> >>

Body2x(size) ==
    Polygon(BodyPoints2x(RocketX2x(size), RocketY2x(size),
                         RocketWidth2x(size), RocketHeight2x(size)), Red)

Window2x(size) ==
    LET rocket_width_2x == RocketWidth2x(size)
        rocket_height_2x == RocketHeight2x(size)
        window_size_2x == IntScale(rocket_width_2x, 4, 10)
        window_x_2x == RocketX2x(size) + (rocket_width_2x - window_size_2x) \div 2
        window_y_2x == RocketY2x(size) + IntScale(rocket_height_2x, 25, 100)
    IN  Ellipse(<<window_x_2x, window_y_2x,
                  window_x_2x + window_size_2x, window_y_2x + window_size_2x>>, SkyBlue)

LeftFin2x(size) ==
    LET rocket_x_2x == RocketX2x(size)
        fin_width_2x == IntScale(RocketWidth2x(size), 3, 10)
        fin_height_2x == IntScale(RocketHeight2x(size), 25, 100)
        fin_y_2x == RocketY2x(size) + IntScale(RocketHeight2x(size), 65, 100)
    IN  Polygon(<< <<rocket_x_2x, fin_y_2x>>,
                   <<rocket_x_2x - fin_width_2x, fin_y_2x + fin_height_2x>>,
                   <<rocket_x_2x, fin_y_2x + fin_height_2x>> >>, DarkRed)

RightFin2x(size) ==
    LET rocket_x_2x == RocketX2x(size)
        rocket_width_2x == RocketWidth2x(size)
        fin_width_2x == IntScale(rocket_width_2x, 3, 10)
        fin_height_2x == IntScale(RocketHeight2x(size), 25, 100)
        fin_y_2x == RocketY2x(size) + IntScale(RocketHeight2x(size), 65, 100)
    IN  Polygon(<< <<rocket_x_2x + rocket_width_2x, fin_y_2x>>,
                   <<rocket_x_2x + rocket_width_2x + fin_width_2x, fin_y_2x + fin_height_2x>>,
                   <<rocket_x_2x + rocket_width_2x, fin_y_2x + fin_height_2x>> >>, DarkRed)

\* The flame with its height taken as 25% of the rocket height instead of 20%.
Flame2xBug(size) ==
    LET rocket_width_2x == RocketWidth2x(size)
        rocket_height_2x == RocketHeight2x(size)
        flame_width_2x == IntScale(rocket_width_2x, 8, 10)
        flame_height_2x == IntScale(rocket_height_2x, 25, 100)
        flame_x_2x == RocketX2x(size) + (rocket_width_2x - flame_width_2x) \div 2
        flame_y_2x == RocketY2x(size) + IntScale(rocket_height_2x, 8, 10)
    IN  Polygon(<< <<flame_x_2x + flame_width_2x \div 2, flame_y_2x + flame_height_2x>>,
                   <<flame_x_2x, flame_y_2x>>,
                   <<flame_x_2x + flame_width_2x \div 4, flame_y_2x - flame_height_2x \div 4>>,
                   <<flame_x_2x + flame_width_2x \div 2, flame_y_2x>>,
                   <<flame_x_2x + (flame_width_2x * 3) \div 4,
                     flame_y_2x - flame_height_2x \div 4>>,
                   <<flame_x_2x + flame_width_2x, flame_y_2x>> >>, Orange)

Flame2x(size) ==
    LET rocket_width_2x == RocketWidth2x(size)
        rocket_height_2x == RocketHeight2x(size)
        flame_width_2x == IntScale(rocket_width_2x, 8, 10)
        flame_height_2x == IntScale(rocket_height_2x, 2, 10)
        flame_x_2x == RocketX2x(size) + (rocket_width_2x - flame_width_2x) \div 2
        flame_y_2x == RocketY2x(size) + IntScale(rocket_height_2x, 8, 10)
    IN  Polygon(<< <<flame_x_2x + flame_width_2x \div 2, flame_y_2x + flame_height_2x>>,
                   <<flame_x_2x, flame_y_2x>>,
                   <<flame_x_2x + flame_width_2x \div 4, flame_y_2x - flame_height_2x \div 4>>,
                   <<flame_x_2x + flame_width_2x \div 2, flame_y_2x>>,
                   <<flame_x_2x + (flame_width_2x * 3) \div 4,
                     flame_y_2x - flame_height_2x \div 4>>,
                   <<flame_x_2x + flame_width_2x, flame_y_2x>> >>, Orange)

\* Image.new('RGBA', (size_2x, size_2x), (0, 0, 0, 0)) and the six draw calls on it
Image2x(size) ==
    [mode |-> "RGBA", size |-> <<Size2x(size), Size2x(size)>>,
     draws |-> <<Background2x(size), Body2x(size), Window2x(size),
                 LeftFin2x(size), RightFin2x(size), Flame2x(size)>>]

-----------------------------------------------------------------------------
(* The fallback render: the ImageMagick command lines of lines 200-223 *)

\* 'magick' if `which magick` returns 0, else 'convert'
FallbackTool(e) == IF e.magick THEN "magick" ELSE "convert"

\* subprocess.run raises FileNotFoundError when the program is not on the PATH
Launches(e, tool) == e[tool]

\* The image the command draws when it succeeds, for canvas side s
\* (s is size at line 202 and size2x at line 216).
MagickImage(tool, s) ==
    [tool |-> tool, size |-> <<s, s>>, background |-> "xc:transparent",
     draws |-> << [fill |-> "red", op |-> "polygon",
                   xy |-> << <<s \div 2, s \div 5>>,
                             <<(s * 3) \div 5, (s * 4) \div 5>>,
                             <<(s * 2) \div 5, (s * 4) \div 5>> >>],
                  [fill |-> "orange", op |-> "circle",
                   xy |-> << <<s \div 2, (s * 4) \div 5>>,
                             <<s \div 2, (s * 9) \div 10>> >>] >>]

-----------------------------------------------------------------------------
(* Files and directories *)

File(name, image) == [name |-> name, image |-> image]

\* img.save(path): the file of that name is created or replaced
Save(files, name, image) == {f \in files : f.name # name} \cup {File(name, image)}

Names(files) == {f.name : f \in files}

\* The names and canvas sides of a set of files.
Listing(files) == {<<f.name, f.image.size>> : f \in files}

\* tempfile.mkdtemp() then os.makedirs(iconset_path): a new, empty directory
NewDir == Len(fs) + 1

Mkdtemp == /\ fs' = Append(fs, {})
           /\ exists' = exists \cup {NewDir}

\* subprocess.run(['rm', '-rf', d])
RmRf(d) == /\ fs' = [fs EXCEPT ![d] = {}]
           /\ exists' = exists \ {d}

\* One iconutil invocation: on which directory, the files it held then (names
\* and canvas sides), and how it ended ("ok", "nonzero", or "nolaunch" when
\* iconutil is not on the PATH).
Run(d, rc) == [path |-> IconsetPath(d), output |-> "AppIcon.icns",
               listing |-> Listing(fs[d]), rc |-> rc]

\* The outcomes subprocess.run of iconutil can have on this host.
IconutilOutcomes(e) == IF e.iconutil THEN {"ok", "nonzero"} ELSE {"nolaunch"}

-----------------------------------------------------------------------------
(* Exceptions *)

\* line 170: except subprocess.CalledProcessError
PackHandlerCatches(kind) == kind = "CalledProcessError"

\* A handler written for the drawing errors only.
MainHandlerCatchesBug(kind) == kind = "DrawError"

\* line 184: except Exception.  Every exception the model raises is one.
MainHandlerCatches(kind) == kind \in {"DrawError", "CalledProcessError", "FileNotFoundError"}

\* subprocess.run(..., check=True) for an outcome that is not "ok"
RaisedBy(rc) == IF rc = "nolaunch" THEN "FileNotFoundError" ELSE "CalledProcessError"

-----------------------------------------------------------------------------
(* Initial state: the module has been imported, line 181 is next *)

Envs == [PIL : BOOLEAN, iconutil : BOOLEAN, magick : BOOLEAN, convert : BOOLEAN]

Init ==
    /\ env \in Envs
    /\ PIL_AVAILABLE = env.PIL
    /\ pc = "main"
    /\ i = 1
    /\ temp_dir = 0
    /\ main_temp_dir = 0
    /\ fs = <<>>
    /\ exists = {}
    /\ out = <<>>
    /\ exc = "none"
    /\ pending_return = "none"
    /\ ret = "none"
    /\ runs = <<>>
    /\ icns = FALSE
    /\ nfail = 0

-----------------------------------------------------------------------------
(* __main__, lines 181-183 *)

Main ==
    /\ pc = "main"
    /\ pc' = IF PIL_AVAILABLE THEN "create" ELSE "check"
    /\ UNCHANGED <<env, PIL_AVAILABLE, i, temp_dir, main_temp_dir, fs, exists, out,
                   exc, pending_return, ret, runs, icns, nfail>>

(* create_rocket_icon, lines 15-20 *)
Create ==
    /\ pc = "create"
    /\ Mkdtemp
    /\ temp_dir' = NewDir
    /\ i' = 1
    /\ pc' = "std"
    /\ UNCHANGED <<env, PIL_AVAILABLE, main_temp_dir, out, exc, pending_return, ret,
                   runs, icns, nfail>>

\* Where the for loop goes after the body for sizes[i] is over.
NextSize(after, loop) == IF i < Len(sizes) THEN loop ELSE after

(* lines 24-96: the standard image is drawn and saved *)
RenderStandard ==
    /\ pc = "std"
    /\ LET size == sizes[i]
       IN  /\ fs' = [fs EXCEPT ![temp_dir] =
                        Save(@, Filename(size), StandardImage(size))]
           /\ IF Has2x(size)
              THEN pc' = "x2" /\ i' = i
              ELSE pc' = NextSize("iconutil", "std") /\ i' = IF i < Len(sizes) THEN i + 1 ELSE i
    /\ UNCHANGED <<env, PIL_AVAILABLE, temp_dir, main_temp_dir, exists, out, exc,
                   pending_return, ret, runs, icns, nfail>>

(* lines 97-164: the @2x image is drawn and saved *)
Render2x ==
    /\ pc = "x2"
    /\ LET size == sizes[i]
       IN  fs' = [fs EXCEPT ![temp_dir] = Save(@, Filename2x(size), Image2x(size))]
    /\ pc' = NextSize("iconutil", "std")
    /\ i' = IF i < Len(sizes) THEN i + 1 ELSE i
    /\ UNCHANGED <<env, PIL_AVAILABLE, temp_dir, main_temp_dir, exists, out, exc,
                   pending_return, ret, runs, icns, nfail>>

(* A Pillow call of lines 24-93 or 98-164 raises: nothing is saved for this
   image and the exception leaves create_rocket_icon *)
RenderRaises ==
    /\ pc \in {"std", "x2"}
    /\ exc' = "DrawError"
    /\ ret' = "raised"
    /\ pc' = "unwind"
    /\ UNCHANGED <<env, PIL_AVAILABLE, i, temp_dir, main_temp_dir, fs, exists, out,
                   pending_return, runs, icns, nfail>>

(* lines 167-172: iconutil is run with check=True; the success message, or the
   handler of CalledProcessError *)
Iconutil ==
    /\ pc = "iconutil"
    /\ \E rc \in IconutilOutcomes(env) :
          /\ runs' = Append(runs, Run(temp_dir, rc))
          /\ IF rc = "ok"
             THEN /\ icns' = TRUE
                  /\ out' = Append(out, SuccessMsg)
                  /\ exc' = "none"
                  /\ pending_return' = "none"
             ELSE /\ icns' = icns
                  /\ IF PackHandlerCatches(RaisedBy(rc))
                     THEN /\ out' = Append(out, IcnsErrorMsg(RaisedBy(rc)))
                          /\ exc' = "none"
                          /\ pending_return' = "False"
                     ELSE /\ out' = out
                          /\ exc' = RaisedBy(rc)
                          /\ pending_return' = "none"
    /\ pc' = "finally"
    /\ UNCHANGED <<env, PIL_AVAILABLE, i, temp_dir, main_temp_dir, fs, exists, ret, nfail>>

(* lines 173-177: the finally block, then the pending return or exception *)
Finally ==
    /\ pc = "finally"
    /\ RmRf(temp_dir)
    /\ IF exc # "none"
       THEN ret' = "raised" /\ pc' = "unwind"
       ELSE /\ ret' = IF pending_return = "False" THEN "False" ELSE "True"
            /\ pc' = "check"
    /\ pending_return' = "none"
    /\ UNCHANGED <<env, PIL_AVAILABLE, i, temp_dir, main_temp_dir, out, exc, runs,
                   icns, nfail>>

(* lines 184-186: the exception reaches __main__ *)
MainExcept ==
    /\ pc = "unwind"
    /\ IF MainHandlerCatches(exc)
       THEN /\ out' = Append(out, PilErrorMsg(exc))
            /\ PIL_AVAILABLE' = FALSE
            /\ pc' = "check"
       ELSE /\ out' = out
            /\ PIL_AVAILABLE' = PIL_AVAILABLE
            /\ pc' = "crashed"
    /\ exc' = "none"
    /\ UNCHANGED <<env, i, temp_dir, main_temp_dir, fs, exists, pending_return, ret,
                   runs, icns, nfail>>

-----------------------------------------------------------------------------
(* The fallback, lines 188-228 *)

(* lines 188-196 *)
CheckFallback ==
    /\ pc = "check"
    /\ IF ~PIL_AVAILABLE
       THEN /\ out' = Append(out, FallbackMsg)
            /\ Mkdtemp
            /\ main_temp_dir' = NewDir
            /\ i' = 1
            /\ pc' = "fb_std"
       ELSE /\ pc' = "done"
            /\ UNCHANGED <<out, fs, exists, main_temp_dir, i>>
    /\ UNCHANGED <<env, PIL_AVAILABLE, temp_dir, exc, pending_return, ret, runs,
                   icns, nfail>>

\* subprocess.run(cmd) without check: the file is written when the tool exits 0,
\* and the exit status is not looked at.
ToolRun(name, side) ==
    LET tool == FallbackTool(env)
    IN  IF ~Launches(env, tool)
        THEN /\ exc' = "FileNotFoundError"
             /\ pc' = "crashed"
             /\ UNCHANGED <<fs, nfail, i>>
        ELSE /\ exc' = exc
             /\ \/ /\ fs' = [fs EXCEPT ![main_temp_dir] =
                                Save(@, name, MagickImage(tool, side))]
                   /\ nfail' = nfail
                \/ /\ nfail' = nfail + 1
                   /\ fs' = fs

(* lines 200-212 *)
FallbackStandard ==
    /\ pc = "fb_std"
    /\ LET size == sizes[i]
       IN  /\ ToolRun(Filename(size), size)
           /\ Launches(env, FallbackTool(env)) =>
                 IF Has2x(size)
                 THEN pc' = "fb_x2" /\ i' = i
                 ELSE /\ pc' = NextSize("fb_iconutil", "fb_std")
                      /\ i' = IF i < Len(sizes) THEN i + 1 ELSE i
    /\ UNCHANGED <<env, PIL_AVAILABLE, temp_dir, main_temp_dir, exists, out,
                   pending_return, ret, runs, icns>>

(* lines 213-224 *)
Fallback2x ==
    /\ pc = "fb_x2"
    /\ LET size == sizes[i]
           size2x == size * 2
       IN  /\ ToolRun(Filename2x(size), size2x)
           /\ Launches(env, FallbackTool(env)) =>
                 /\ pc' = NextSize("fb_iconutil", "fb_std")
                 /\ i' = IF i < Len(sizes) THEN i + 1 ELSE i
    /\ UNCHANGED <<env, PIL_AVAILABLE, temp_dir, main_temp_dir, exists, out,
                   pending_return, ret, runs, icns>>

(* line 226: iconutil is run without check and outside any try *)
FallbackIconutil ==
    /\ pc = "fb_iconutil"
    /\ \E rc \in IconutilOutcomes(env) :
          /\ runs' = Append(runs, Run(main_temp_dir, rc))
          /\ icns' = (icns \/ rc = "ok")
          /\ IF rc = "nolaunch"
             THEN exc' = "FileNotFoundError" /\ pc' = "crashed"
             ELSE exc' = exc /\ pc' = "fb_rm"
    /\ UNCHANGED <<env, PIL_AVAILABLE, i, temp_dir, main_temp_dir, fs, exists, out,
                   pending_return, ret, nfail>>

(* lines 227-228 *)
FallbackRm ==
    /\ pc = "fb_rm"
    /\ RmRf(main_temp_dir)
    /\ out' = Append(out, SuccessMsg)
    /\ pc' = "done"
    /\ UNCHANGED <<env, PIL_AVAILABLE, i, temp_dir, main_temp_dir, exc,
                   pending_return, ret, runs, icns, nfail>>

Next ==
    \/ Main
    \/ Create
    \/ RenderStandard
    \/ Render2x
    \/ RenderRaises
    \/ Iconutil
    \/ Finally
    \/ MainExcept
    \/ CheckFallback
    \/ FallbackStandard
    \/ Fallback2x
    \/ FallbackIconutil
    \/ FallbackRm

Spec == Init /\ [][Next]_vars

\* The process has ended: normally, or by an uncaught exception.
Terminated == pc \in {"done", "crashed"}

-----------------------------------------------------------------------------
(* Vocabulary of the properties *)

Range(s) == {s[k] : k \in 1..Len(s)}

\* The base sizes that have a double-density variant.
BaseSizes == {16, 32, 64, 128, 256, 512}

AllSizes == BaseSizes \cup {1024}

\* The iconset the packaging tool needs: each file name with its canvas side.
RequiredFiles ==
    {<<Filename(S), <<S, S>> >> : S \in AllSizes}
        \cup {<<Filename2x(S), <<2 * S, 2 * S>> >> : S \in BaseSizes}

RequiredNames == {r[1] : r \in RequiredFiles}

\* The files create_rocket_icon has in its staging directory.
PrimaryFiles == IF temp_dir = 0 THEN {} ELSE fs[temp_dir]

\* create_rocket_icon is running: every file it saves is in PrimaryFiles in
\* such a state, from the step that saved it on.
InCreate == pc \in {"std", "x2", "iconutil", "finally"}

\* The iconutil invocations made by create_rocket_icon, and by the fallback.
PrimaryRuns == {r \in Range(runs) : temp_dir # 0 /\ r.path = IconsetPath(temp_dir)}

FallbackRuns == {r \in Range(runs) : main_temp_dir # 0 /\ r.path = IconsetPath(main_temp_dir)}

FallbackEntered == FallbackMsg \in Range(out)

SetMax(S) == CHOOSE x \in S : \A y \in S : y <= x

SetMin(S) == CHOOSE x \in S : \A y \in S : x <= y

\* The bounding box of the body polygon (the second draw call of a Pillow
\* image): its width in pixels and its height in tenths of a pixel.
BodyWidth(image) ==
    LET xs == {image.draws[2].xy[k][1] : k \in 1..5}
    IN  SetMax(xs) - SetMin(xs)

BodyHeight10(image) ==
    LET xy == image.draws[2].xy
        ys == {10 * xy[1][2]} \cup {xy[k][2].tenths : k \in 2..5}
    IN  SetMax(ys) - SetMin(ys)

Abs(x) == IF x < 0 THEN -x ELSE x

-----------------------------------------------------------------------------
(* C1: when create_rocket_icon is about to run the packaging tool, its
   staging directory holds exactly the 13 required files: icon_SxS.png of
   side S for the seven sizes, icon_SxS@2x.png of side 2S for the six sizes
   below 1024, and nothing else. *)
C1_ThirteenFilesAtPackaging ==
    pc = "iconutil" =>
        /\ Listing(PrimaryFiles) = RequiredFiles
        /\ Cardinality(PrimaryFiles) = 13
        /\ Filename2x(1024) \notin Names(PrimaryFiles)

C1_Witness ==
    /\ pc = "iconutil"
    /\ Cardinality(PrimaryFiles) = 13
    /\ \E f \in PrimaryFiles : f.name = Filename(1024) /\ f.image.size = <<1024, 1024>>

(* C2: at the end of every run, every staging directory on which iconutil was
   invoked (whether it exited 0, exited non-zero or could not be launched) has
   been deleted. *)
C2_StagingDeletedAfterPackaging ==
    Terminated => \A r \in Range(runs) : r.path[1] \notin exists

(* C3: when create_rocket_icon has ended and its packaging invocation failed,
   it has printed the error message, has not printed the success message and
   has returned False; and it has returned True only if the invocation
   succeeded. *)
C3_FailureReportedAndFalse ==
    (pc \in {"unwind", "check"} /\ ret # "none") =>
        /\ (\E r \in PrimaryRuns : r.rc # "ok") =>
              /\ ret = "False"
              /\ \E m \in Range(out) : m.text = IcnsErrorMsg("").text
              /\ SuccessMsg \notin Range(out)
        /\ ret = "True" => \E r \in PrimaryRuns : r.rc = "ok"

(* C4: the fallback runs whenever the primary path cannot complete.  If
   Pillow could not be imported, create_rocket_icon is never entered; a run
   that ends without Pillow, or in which create_rocket_icon raised, has
   entered the fallback; after an exception of create_rocket_icon has been
   handled the flag is off and control is in the fallback; and the fallback
   starts at the first size with a new, empty, existing staging directory. *)
C4_FallbackWheneverPrimaryFails ==
    /\ ~env.PIL => (temp_dir = 0 /\ ret = "none" /\ PrimaryRuns = {})
    /\ (Terminated /\ (~env.PIL \/ ret = "raised")) =>
          (FallbackEntered /\ main_temp_dir # 0)
    /\ (ret = "raised" /\ pc # "unwind") =>
          /\ ~PIL_AVAILABLE
          /\ pc \in {"check", "fb_std", "fb_x2", "fb_iconutil", "fb_rm", "done", "crashed"}
          /\ (pc # "check" => FallbackEntered)
    /\ (pc = "fb_std" /\ i = 1) =>
          /\ sizes[i] = 16
          /\ main_temp_dir \in exists
          /\ main_temp_dir # temp_dir
          /\ fs[main_temp_dir] = {}

C4_Witness ==
    /\ env.PIL
    /\ ret = "raised"
    /\ temp_dir \in exists
    /\ pc = "fb_x2"
    /\ sizes[i] = 16
    /\ Names(fs[main_temp_dir]) = {Filename(16)}

(* C5: the fallback is entered only if Pillow could not be imported or a
   drawing step of the primary path failed; a run whose create_rocket_icon
   reached the packaging tool never enters the fallback. *)
C5_FallbackOnlyWithoutDrawing ==
    /\ FallbackEntered => (~env.PIL \/ PilErrorMsg("DrawError") \in Range(out))
    /\ PrimaryRuns # {} => ~FallbackEntered

(* C6: on both paths, iconutil is invoked only on a staging directory that
   holds every one of the 13 required files. *)
C6_PackagingOnlyAfterAllFiles ==
    \A r \in Range(runs) : RequiredNames \subseteq {l[1] : l \in r.listing}

(* C7: while create_rocket_icon runs, for every base size n below 1024, the
   image saved as icon_nxn@2x.png is, shape by shape, coordinate by
   coordinate and colour by colour, the standard render of canvas side 2n;
   it equals the image saved as icon_2nx2n.png once that one is there. *)
C7_DoubleDensityIsStandardOfDoubleSide ==
    InCreate => \A f \in PrimaryFiles : \A n \in BaseSizes :
        f.name = Filename2x(n) =>
            /\ f.image = StandardImage(2 * n)
            /\ \A g \in PrimaryFiles : g.name = Filename(2 * n) => g.image = f.image

C7_Witness ==
    /\ pc = "iconutil"
    /\ \A n \in BaseSizes : \E f, g \in PrimaryFiles :
          f.name = Filename2x(n) /\ g.name = Filename(2 * n)

(* C8 as stated: at every canvas side the body polygon's bounding box is 0.3
   of the side wide and 0.6 of the side high, to within 3 pixels. *)
C8_BodyBoxThreeTenthsBySixTenths ==
    \A f \in PrimaryFiles :
        LET s == f.image.size[1]
        IN  /\ Abs(10 * BodyWidth(f.image) - 3 * s) <= 30
            /\ Abs(BodyHeight10(f.image) - 6 * s) <= 30

(* C8 amended: every image create_rocket_icon saves, of canvas side s, has a
   body polygon whose bounding box is floor(0.3 s) wide and
   0.8 * floor(0.6 s) high: 0.3 of the side by 0.48 of the side, each short
   by less than one pixel. *)
C8_BodyBoxAmended ==
    InCreate => \A f \in PrimaryFiles :
        LET s == f.image.size[1]
            w == BodyWidth(f.image)
            h10 == BodyHeight10(f.image)
        IN  /\ 0 <= 3 * s - 10 * w /\ 3 * s - 10 * w < 10
            /\ h10 = 8 * ((6 * s) \div 10)
            /\ 0 <= 48 * s - 10 * h10 /\ 48 * s - 10 * h10 < 80

C8_Witness ==
    /\ pc = "iconutil"
    /\ \E f \in PrimaryFiles :
          /\ f.name = Filename(1024)
          /\ BodyWidth(f.image) = 307
          /\ BodyHeight10(f.image) = 4912
    /\ \E f \in PrimaryFiles :
          /\ f.name = Filename2x(16)
          /\ BodyWidth(f.image) = 9
          /\ BodyHeight10(f.image) = 152

(* C9: a run without Pillow that reaches its end has had the outcome of the
   primary path: one iconutil invocation, on a directory named AppIcon.iconset
   that holds the 13 required files with their canvas sides, writing
   AppIcon.icns, and the staging directory deleted. *)
C9_FallbackSameOutcome ==
    (pc = "done" /\ ~env.PIL) =>
        /\ Len(runs) = 1
        /\ \A r \in Range(runs) :
              /\ r.path[2] = "AppIcon.iconset"
              /\ r.output = "AppIcon.icns"
              /\ r.listing = RequiredFiles
              /\ r.path[1] \notin exists

(* C10: whenever the success message is the last thing printed, the iconutil
   invocation made just before it exited 0. *)
C10_SuccessOnlyAfterSuccess ==
    (out # <<>> /\ out[Len(out)] = SuccessMsg) =>
        /\ runs # <<>>
        /\ runs[Len(runs)].rc = "ok"

====
